---- MODULE Spec2Model ----
(***************************************************************************)
(* Model of main.py, a Streamlit chat page answering questions about an    *)
(* uploaded text file through the Gemini API.                              *)
(*                                                                         *)
(* Streamlit runs the whole script once per user interaction.  What        *)
(* survives from one run to the next is the widget state (the uploaded     *)
(* file), st.session_state (the transcript), the st.cache_resource cache   *)
(* (the model handle) and the process environment (the API key).  The      *)
(* locals of main() are recomputed by every run.                           *)
(*                                                                         *)
(* An optional value (Python None or a value) is a sequence of length at   *)
(* most one.  Text is a sequence of code points.  The user-visible         *)
(* literals are written in ASCII (the source has them in Vietnamese).      *)
(***************************************************************************)
EXTENDS Integers, Sequences, FiniteSets, TLC

\* ---------------------------------------------------------------- bounds
MaxBytes == 2      \* longest uploaded byte stream
MaxAsks == 2       \* questions submitted in one session
MaxUploads == 2    \* uploader interactions (upload or remove) in one session

\* ------------------------------------------------------- input alphabets
\* 0x41 'A', 0xC3 lead byte of a 2-byte sequence, 0xA9 continuation byte.
Bytes == {65, 195, 169}
Questions == {"Hello", "What color is the sky?"}
BackendTexts == {"Blue.", ""}
BackendErrors == {"network unreachable", "response has no text"}
ApiKeys == {<<>>, <<"">>, <<"key">>}

None == <<>>
Some(x) == <<x>>

RECURSIVE SeqsUpTo(_, _)
SeqsUpTo(S, n) ==
    IF n = 0 THEN {<<>>}
    ELSE LET shorter == SeqsUpTo(S, n - 1)
         IN  shorter \cup {Append(s, x) : s \in {t \in shorter : Len(t) = n - 1}, x \in S}

ByteStreams == SeqsUpTo(Bytes, MaxBytes)

\* ------------------------------------------------------ fixed UI strings
MsgNoKey == "Loi: Khong tim thay GOOGLE_API_KEY."
MsgKeyInfo == "Ban co the lay API Key tu Google AI Studio (aistudio.google.com)."
MsgUploadOk == "Da tai tep thanh cong! Bay gio ban co the hoi cac cau hoi."
MsgNoFileContent == "Toi khong co noi dung tep de tra loi cau hoi cua ban."
MsgApology == "Xin loi, toi gap su co khi xu ly yeu cau cua ban. Vui long thu lai."
MsgUploadFirst == "Vui long tai len mot tep truoc khi dat cau hoi."
\* f"Loi khi doc tep: {e}. ..." for the one exception decode() raises
MsgLoadError == "Loi khi doc tep: 'utf-8' codec can't decode. Vui long dam bao day la tep van ban hop le."
\* f"Loi khi goi API Gemini: {e}"
MsgGenError(e) == IF e = "network unreachable"
                  THEN "Loi khi goi API Gemini: network unreachable"
                  ELSE "Loi khi goi API Gemini: response has no text"

\* ----------------------------------------------------------- pure parts
\* Python truthiness of an optional string: None and the empty string are false.
Truthy(opt) == opt # None /\ Len(opt[1]) # 0

\* bytes.decode('utf-8') on the alphabet above: None when the stream is not
\* valid UTF-8 (decode raises), else Some(code points).
RECURSIVE Utf8Decode(_)
Utf8Decode(b) ==
    IF b = <<>> THEN Some(<<>>)
    ELSE IF b[1] < 128
         THEN LET rest == Utf8Decode(Tail(b))
              IN  IF rest = None THEN None ELSE Some(<<b[1]>> \o rest[1])
    ELSE IF b[1] >= 194 /\ b[1] <= 223 /\ Len(b) >= 2 /\ b[2] >= 128 /\ b[2] <= 191
         THEN LET rest == Utf8Decode(Tail(Tail(b)))
              IN  IF rest = None THEN None
                  ELSE Some(<<(b[1] - 192) * 64 + (b[2] - 128)>> \o rest[1])
    ELSE None

\* Mutant: decode(errors='replace'), an undecodable stream becomes U+FFFD text.
read_file_content_replace(uploaded) ==
    LET content == Utf8Decode(uploaded)
    IN  [value |-> IF content # None THEN content ELSE Some(<<65533>>), shown |-> {}]

\* read_file_content: the decoded text, or None with a diagnostic shown.
read_file_content(uploaded) ==
    LET content == Utf8Decode(uploaded)
    IN  IF content # None
        THEN [value |-> content, shown |-> {}]
        ELSE [value |-> None, shown |-> {MsgLoadError}]

\* The f-string template of get_chat_response with its two substitutions.
BuildPrompt(content, query) == <<"head", content, "mid", query, "tail">>

\* ----------------------------------------------------------------- state
VARIABLES
    API_KEY,        \* os.getenv("GOOGLE_API_KEY"): optional string
    model,          \* the cached GenerativeModel handle exists
    widget_file,    \* file held by the st.file_uploader widget: optional bytes
    chat_value,     \* question submitted to the st.chat_input widget, if any
    session_state,  \* st.session_state: no keys, or the key "messages"
    pc,             \* position of the script run
    notices,        \* st.error / st.info / st.success texts of the current run
    uploaded_file,  \* main(): local uploaded_file
    file_content,   \* main(): local file_content
    prompt,         \* main(): local prompt, the value st.chat_input returned
    response_text,  \* main(): local response_text
    sent,           \* prompt passed to model.generate_content in this run
    outcome,        \* what generate_content did in this run
    inFlight,       \* generate_content calls issued and not yet returned
    calls,          \* generate_content calls issued in the session
    asks,           \* questions submitted in the session
    uploads,        \* uploader interactions in the session
    hadError        \* an upload or a generation has failed in the session

vars == <<API_KEY, model, widget_file, chat_value, session_state, pc, notices, uploaded_file,
          file_content, prompt, response_text, sent, outcome, inFlight, calls,
          asks, uploads, hadError>>

locals == <<uploaded_file, file_content, prompt, response_text, sent, outcome>>
counters == <<asks, uploads>>

\* st.session_state.messages, empty while the key is not set
Transcript == IF "messages" \in DOMAIN session_state THEN session_state.messages ELSE <<>>

Turn(role, content) == [role |-> role, content |-> content]

Init ==
    /\ API_KEY \in ApiKeys
    /\ model = FALSE
    /\ widget_file = None
    /\ chat_value = None
    /\ session_state = <<>>
    /\ pc = "start"
    /\ notices = {}
    /\ uploaded_file = None
    /\ file_content = None
    /\ prompt = None
    /\ response_text = None
    /\ sent = None
    /\ outcome = None
    /\ inFlight = 0
    /\ calls = 0
    /\ asks = 0
    /\ uploads = 0
    /\ hadError = FALSE

\* ------------------------------------------------------ user interactions
\* The widgets take input between script runs; each input starts a run.

\* st.file_uploader: the user picks a file.
Upload(b) ==
    /\ pc = "idle"
    /\ uploads < MaxUploads
    /\ widget_file' = Some(b)
    /\ chat_value' = None
    /\ uploads' = uploads + 1
    /\ pc' = "start"
    /\ UNCHANGED <<API_KEY, model, session_state, notices, locals, inFlight, calls,
                   asks, hadError>>

\* st.file_uploader: the user removes the file.
RemoveFile ==
    /\ pc = "idle"
    /\ uploads < MaxUploads
    /\ widget_file # None
    /\ widget_file' = None
    /\ chat_value' = None
    /\ uploads' = uploads + 1
    /\ pc' = "start"
    /\ UNCHANGED <<API_KEY, model, session_state, notices, locals, inFlight, calls,
                   asks, hadError>>

\* Mutant: the chat input also takes a question while a call is pending.
SubmitWhilePending(q) ==
    /\ pc \in {"idle", "calling"}
    /\ asks < MaxAsks
    /\ chat_value' = Some(q)
    /\ asks' = asks + 1
    /\ pc' = "start"
    /\ UNCHANGED <<API_KEY, model, widget_file, session_state, notices, locals,
                   inFlight, calls, uploads, hadError>>

\* st.chat_input: the user submits a non-empty question.
Submit(q) ==
    /\ pc = "idle"
    /\ asks < MaxAsks
    /\ chat_value' = Some(q)
    /\ asks' = asks + 1
    /\ pc' = "start"
    /\ UNCHANGED <<API_KEY, model, widget_file, session_state, notices, locals,
                   inFlight, calls, uploads, hadError>>

\* ------------------------------------------------------------ script run
\* Mutant: the credential check is "API_KEY is None", an empty key passes.
StartupNoneOnly ==
    /\ pc = "start"
    /\ uploaded_file' = None
    /\ file_content' = None
    /\ prompt' = None
    /\ response_text' = None
    /\ sent' = None
    /\ outcome' = None
    /\ IF API_KEY = None
       THEN /\ notices' = {MsgNoKey, MsgKeyInfo}
            /\ pc' = "halted"
            /\ UNCHANGED model
       ELSE /\ notices' = {}
            /\ model' = TRUE
            /\ pc' = "main"
    /\ UNCHANGED <<API_KEY, widget_file, chat_value, session_state, inFlight, calls,
                   counters, hadError>>

\* Module level: the credential check, genai.configure, get_gemini_model().
Startup ==
    /\ pc = "start"
    /\ uploaded_file' = None
    /\ file_content' = None
    /\ prompt' = None
    /\ response_text' = None
    /\ sent' = None
    /\ outcome' = None
    /\ IF ~Truthy(API_KEY)
       THEN /\ notices' = {MsgNoKey, MsgKeyInfo}
            /\ pc' = "halted"
            /\ UNCHANGED model
       ELSE /\ notices' = {}
            /\ model' = TRUE
            /\ pc' = "main"
    /\ UNCHANGED <<API_KEY, widget_file, chat_value, session_state, inFlight, calls,
                   counters, hadError>>

\* Mutant: uploaded_file is not reset when the file gave no content.
LoadUploadNoReset ==
    /\ pc = "main"
    /\ IF widget_file # None
       THEN LET r == read_file_content(widget_file[1])
            IN  /\ file_content' = r.value
                /\ notices' = notices \cup r.shown \cup
                                 (IF Truthy(r.value) THEN {MsgUploadOk} ELSE {})
                /\ uploaded_file' = widget_file
                /\ hadError' = (hadError \/ r.value = None)
       ELSE /\ file_content' = None
            /\ uploaded_file' = None
            /\ UNCHANGED <<notices, hadError>>
    /\ pc' = "chat"
    /\ UNCHANGED <<API_KEY, model, widget_file, chat_value, session_state, prompt,
                   response_text, sent, outcome, inFlight, calls, counters>>

\* main(): the uploader widget and the reading of its file.
LoadUpload ==
    /\ pc = "main"
    /\ IF widget_file # None
       THEN LET r == read_file_content(widget_file[1])
            IN  /\ file_content' = r.value
                /\ IF Truthy(r.value)
                   THEN /\ notices' = notices \cup r.shown \cup {MsgUploadOk}
                        /\ uploaded_file' = widget_file
                   ELSE /\ notices' = notices \cup r.shown
                        /\ uploaded_file' = None
                /\ hadError' = (hadError \/ r.value = None)
       ELSE /\ file_content' = None
            /\ uploaded_file' = None
            /\ UNCHANGED <<notices, hadError>>
    /\ pc' = "chat"
    /\ UNCHANGED <<API_KEY, model, widget_file, chat_value, session_state, prompt,
                   response_text, sent, outcome, inFlight, calls, counters>>

\* main(): the transcript is created if missing and displayed; the question
\* the chat input returned, if any, is appended as a user turn.
ChatInput ==
    /\ pc = "chat"
    /\ prompt' = chat_value
    /\ chat_value' = None
    /\ IF Truthy(chat_value)
       THEN /\ session_state' = [messages |-> Append(Transcript, Turn("user", chat_value[1]))]
            /\ pc' = "respond"
       ELSE /\ session_state' = [messages |-> Transcript]
            /\ pc' = "idle"
    /\ UNCHANGED <<API_KEY, model, widget_file, notices, uploaded_file, file_content,
                   response_text, sent, outcome, inFlight, calls, counters, hadError>>

\* Mutant: main() calls get_chat_response without testing uploaded_file.
RespondNoGuard ==
    /\ pc = "respond"
    /\ IF ~Truthy(file_content)
       THEN /\ response_text' = Some(MsgNoFileContent)
            /\ pc' = "append"
            /\ UNCHANGED <<sent, inFlight, calls>>
       ELSE /\ sent' = Some(BuildPrompt(file_content[1], prompt[1]))
            /\ inFlight' = inFlight + 1
            /\ calls' = calls + 1
            /\ pc' = "calling"
            /\ UNCHANGED response_text
    /\ UNCHANGED <<API_KEY, model, widget_file, chat_value, session_state, notices,
                   uploaded_file, file_content, prompt, outcome, counters, hadError>>

\* main(): the choice of the answer, and get_chat_response up to the call of
\* model.generate_content.
Respond ==
    /\ pc = "respond"
    /\ IF uploaded_file = None
       THEN /\ response_text' = Some(MsgUploadFirst)
            /\ pc' = "append"
            /\ UNCHANGED <<sent, inFlight, calls>>
       ELSE IF ~Truthy(file_content)
       THEN /\ response_text' = Some(MsgNoFileContent)
            /\ pc' = "append"
            /\ UNCHANGED <<sent, inFlight, calls>>
       ELSE /\ sent' = Some(BuildPrompt(file_content[1], prompt[1]))
            /\ inFlight' = inFlight + 1
            /\ calls' = calls + 1
            /\ pc' = "calling"
            /\ UNCHANGED response_text
    /\ UNCHANGED <<API_KEY, model, widget_file, chat_value, session_state, notices,
                   uploaded_file, file_content, prompt, outcome, counters, hadError>>

\* Mutant: an empty response text is answered with the apology.
GenerateOkEmptyIsError(t) ==
    /\ pc = "calling"
    /\ outcome' = <<"ok", t>>
    /\ response_text' = IF t = "" THEN Some(MsgApology) ELSE Some(t)
    /\ inFlight' = inFlight - 1
    /\ pc' = "append"
    /\ UNCHANGED <<API_KEY, model, widget_file, chat_value, session_state, notices,
                   uploaded_file, file_content, prompt, sent, calls, counters, hadError>>

\* get_chat_response: generate_content returned and response.text is t.
GenerateOk(t) ==
    /\ pc = "calling"
    /\ outcome' = <<"ok", t>>
    /\ response_text' = Some(t)
    /\ inFlight' = inFlight - 1
    /\ pc' = "append"
    /\ UNCHANGED <<API_KEY, model, widget_file, chat_value, session_state, notices,
                   uploaded_file, file_content, prompt, sent, calls, counters, hadError>>

\* Mutant: the except branch returns the diagnostic it shows.
GenerateFailReturnsDiagnostic(e) ==
    /\ pc = "calling"
    /\ outcome' = <<"raise", e>>
    /\ notices' = notices \cup {MsgGenError(e)}
    /\ response_text' = Some(MsgGenError(e))
    /\ inFlight' = inFlight - 1
    /\ hadError' = TRUE
    /\ pc' = "append"
    /\ UNCHANGED <<API_KEY, model, widget_file, chat_value, session_state,
                   uploaded_file, file_content, prompt, sent, calls, counters>>

\* Mutant: the except branch shows the diagnostic and stops the page (st.stop).
GenerateFailStops(e) ==
    /\ pc = "calling"
    /\ outcome' = <<"raise", e>>
    /\ notices' = notices \cup {MsgGenError(e)}
    /\ inFlight' = inFlight - 1
    /\ hadError' = TRUE
    /\ pc' = "halted"
    /\ UNCHANGED <<API_KEY, model, widget_file, chat_value, session_state,
                   uploaded_file, file_content, prompt, response_text, sent, calls,
                   counters>>

\* get_chat_response: generate_content or response.text raised e.
GenerateFail(e) ==
    /\ pc = "calling"
    /\ outcome' = <<"raise", e>>
    /\ notices' = notices \cup {MsgGenError(e)}
    /\ response_text' = Some(MsgApology)
    /\ inFlight' = inFlight - 1
    /\ hadError' = TRUE
    /\ pc' = "append"
    /\ UNCHANGED <<API_KEY, model, widget_file, chat_value, session_state,
                   uploaded_file, file_content, prompt, sent, calls, counters>>

\* Mutant: the upload-a-file-first answer is only displayed, not appended.
AppendAssistantSkipsNoDocument ==
    /\ pc = "append"
    /\ session_state' = IF uploaded_file = None THEN session_state
                        ELSE [messages |-> Append(Transcript, Turn("assistant", response_text[1]))]
    /\ pc' = "idle"
    /\ UNCHANGED <<API_KEY, model, widget_file, chat_value, notices, locals, inFlight,
                   calls, counters, hadError>>

\* main(): the answer is appended as an assistant turn and displayed.
AppendAssistant ==
    /\ pc = "append"
    /\ session_state' = [messages |-> Append(Transcript, Turn("assistant", response_text[1]))]
    /\ pc' = "idle"
    /\ UNCHANGED <<API_KEY, model, widget_file, chat_value, notices, locals, inFlight,
                   calls, counters, hadError>>

Next ==
    \/ \E b \in ByteStreams : Upload(b)
    \/ RemoveFile
    \/ \E q \in Questions : Submit(q)
    \/ Startup
    \/ LoadUpload
    \/ ChatInput
    \/ Respond
    \/ \E t \in BackendTexts : GenerateOk(t)
    \/ \E e \in BackendErrors : GenerateFail(e)
    \/ AppendAssistant

Spec == Init /\ [][Next]_vars

\* ------------------------------------------------------- derived notions
\* The script run has passed the reading of the uploaded file.
PostLoad == pc \in {"chat", "respond", "calling", "append", "idle"}
\* A question of this run has been appended and awaits its answer.
Answering == pc \in {"respond", "calling", "append"}
\* The Document Context as main() sees it after reading the upload.
DocumentAbsent == uploaded_file = None
UploadInvalid == widget_file # None /\ Utf8Decode(widget_file[1]) = None
UploadDecodes == widget_file # None /\ Utf8Decode(widget_file[1]) # None
Failed == outcome # None /\ outcome[1] = "raise"
Succeeded == outcome # None /\ outcome[1] = "ok"
LastTurn == Transcript[Len(Transcript)]
Alternates ==
    \A i \in 1..Len(Transcript) :
        Transcript[i].role = IF i % 2 = 1 THEN "user" ELSE "assistant"
AppendsOnly ==
    \/ Transcript' = Transcript
    \/ /\ Len(Transcript') = Len(Transcript) + 1
       /\ SubSeq(Transcript', 1, Len(Transcript)) = Transcript

\* ---------------------------------------------------------------- claims

\* C1: every ask, on whichever path, appends exactly two Turns, first the user
\* Turn holding the question and then an assistant Turn; Turns already in the
\* Transcript are never modified or removed; after N completed asks the
\* Transcript has length 2N and its roles alternate user, assistant, ...
C1_TwoTurnsPerAsk ==
    /\ [](/\ Alternates
          /\ pc = "idle" => Len(Transcript) = 2 * asks
          /\ Answering => /\ Len(Transcript) = 2 * asks - 1
                          /\ LastTurn = Turn("user", prompt[1]))
    /\ [][AppendsOnly]_vars
C1_Witness ==
    /\ pc = "idle"
    /\ asks = 2
    /\ Len(Transcript) = 4
    /\ Transcript[2].content = MsgUploadFirst
    /\ Transcript[4].content = MsgApology

\* C2: when the Document Context is absent at an ask (no file in the uploader, or
\* the uploaded file failed to decode), the backend is not called during that ask
\* and the assistant Turn is the fixed upload-a-file-first message.
C2_NoContextNoBackend ==
    /\ [](/\ PostLoad /\ (widget_file = None \/ UploadInvalid) => DocumentAbsent
          /\ PostLoad /\ DocumentAbsent =>
                /\ pc # "calling"
                /\ sent = None
                /\ outcome = None
                /\ inFlight = 0
                /\ response_text \in {None, Some(MsgUploadFirst)}
                /\ pc = "idle" /\ prompt # None =>
                      LastTurn = Turn("assistant", MsgUploadFirst))
    /\ [][PostLoad /\ DocumentAbsent => calls' = calls]_vars
C2_Witness ==
    /\ pc = "idle"
    /\ widget_file = None
    /\ prompt = Some("Hello")
    /\ Transcript = <<Turn("user", "Hello"), Turn("assistant", MsgUploadFirst)>>
    /\ calls = 0

\* C3: when the backend call fails during an ask, the ask still appends exactly one
\* user Turn and one assistant Turn, the assistant Turn is the fixed apology, and
\* the diagnostic of the failure is shown but never stored in the Transcript.
C3_FailureGivesApology ==
    /\ Failed /\ pc \in {"append", "idle"} =>
          /\ response_text = Some(MsgApology)
          /\ MsgGenError(outcome[2]) \in notices
    /\ Failed /\ pc = "idle" =>
          /\ Len(Transcript) = 2 * asks
          /\ Transcript[Len(Transcript) - 1] = Turn("user", prompt[1])
          /\ LastTurn = Turn("assistant", MsgApology)
    /\ \A i \in 1..Len(Transcript) : \A e \in BackendErrors :
          Transcript[i].content \notin {e, MsgGenError(e)}
C3_Witness ==
    /\ pc = "idle"
    /\ outcome = <<"raise", "network unreachable">>
    /\ LastTurn = Turn("assistant", MsgApology)

\* C4: with the credential unset or empty the process halts before any
\* interaction: no upload is processed, no question is asked, the model handle is
\* never created and the backend is never called; the diagnostic and the guidance
\* are shown before halting.
C4_MissingKeyHalts ==
    ~Truthy(API_KEY) =>
        /\ pc \in {"start", "halted"}
        /\ ~model
        /\ calls = 0
        /\ asks = 0
        /\ uploads = 0
        /\ widget_file = None
        /\ Transcript = <<>>
        /\ pc = "halted" => /\ {MsgNoKey, MsgKeyInfo} \subseteq notices
                            /\ ~ENABLED Next
C4_Witness == pc = "halted" /\ API_KEY = Some("")

\* C5: an upload that is not valid UTF-8 gives a load failure with a diagnostic,
\* leaves the Document Context absent, so that a following ask takes the
\* upload-a-file-first path, and leaves the Transcript as it was.
C5_InvalidUploadFails ==
    /\ [](PostLoad /\ UploadInvalid =>
            /\ file_content = None
            /\ DocumentAbsent
            /\ MsgLoadError \in notices
            /\ MsgUploadOk \notin notices
            /\ sent = None
            /\ response_text \in {None, Some(MsgUploadFirst)})
    /\ [][UploadInvalid' /\ prompt' = None /\ chat_value' = None =>
             Transcript' = Transcript]_vars
C5_Witness ==
    /\ pc = "idle"
    /\ UploadInvalid
    /\ prompt # None
    /\ LastTurn = Turn("assistant", MsgUploadFirst)

\* C6: with the Document Context present and the backend call succeeding, the ask
\* makes exactly one backend call and the assistant Turn appended holds the text
\* the backend returned, unchanged.
C6_SuccessIsVerbatim ==
    /\ [](/\ Succeeded /\ pc \in {"append", "idle"} =>
                /\ response_text = Some(outcome[2])
                /\ sent = Some(BuildPrompt(file_content[1], prompt[1]))
          /\ Succeeded /\ pc = "idle" =>
                /\ Transcript[Len(Transcript) - 1] = Turn("user", prompt[1])
                /\ LastTurn = Turn("assistant", outcome[2]))
    /\ [][calls' = calls + (IF pc = "respond" /\ ~DocumentAbsent THEN 1 ELSE 0)]_vars
C6_Witness ==
    /\ pc = "idle"
    /\ outcome = <<"ok", "Blue.">>
    /\ calls = 1
    /\ Transcript = <<Turn("user", "What color is the sky?"), Turn("assistant", "Blue.")>>

C8_DecodedUploadIsReady ==
    PostLoad /\ UploadDecodes =>
        /\ file_content = Utf8Decode(widget_file[1])
        /\ ~DocumentAbsent
        /\ pc \in {"append", "idle"} /\ prompt # None =>
              /\ sent = Some(BuildPrompt(Utf8Decode(widget_file[1])[1], prompt[1]))
              /\ response_text # Some(MsgUploadFirst)

\* C9: no error latches the session: after a failed generation or a failed upload
\* the page is not halted, the script run goes on to its end, the widgets accept a
\* further upload and a further question, and a later ask with a Document Context
\* present calls the backend and, when the call succeeds, appends the returned text.
C9_NoErrorLatches ==
    /\ [](hadError =>
            /\ pc # "halted"
            /\ pc # "idle" => ENABLED Next
            /\ pc = "idle" /\ asks < MaxAsks => \A q \in Questions : ENABLED Submit(q)
            /\ pc = "idle" /\ uploads < MaxUploads => \A b \in ByteStreams : ENABLED Upload(b)
            /\ pc = "idle" /\ Succeeded => LastTurn = Turn("assistant", outcome[2]))
    /\ [][hadError /\ pc = "respond" /\ ~DocumentAbsent =>
             /\ pc' = "calling"
             /\ calls' = calls + 1
             /\ sent' = Some(BuildPrompt(file_content[1], prompt[1]))]_vars
C9_Witness ==
    /\ pc = "idle"
    /\ hadError
    /\ Len(Transcript) = 4
    /\ Transcript[2].content = MsgApology
    /\ outcome = <<"ok", "Blue.">>
    /\ LastTurn = Turn("assistant", "Blue.")

====
